---- MODULE Spec2Model ----
(***************************************************************************)
(* debrepbuild: the per-package build pipeline of src/repo/build/mod.rs.   *)
(* The model follows one build() call at a time through its stages         *)
(* (staging, pre_flight, sbuild, record update, mv_to_pool) over the       *)
(* per-package record files, which persist from one call to the next.      *)
(* File contents are sequences of one-character strings, so that the       *)
(* bytes written and the lines()/split_whitespace() parsing of them are    *)
(* modelled as the code computes them.                                     *)
(***************************************************************************)
EXTENDS Integers, Sequences, FiniteSets, TLC

\* ------------------------------------------------------------------ bounds
MaxCalls == 3          \* build() calls followed in one behaviour
MaxSources == 2        \* longest config.source of a run
MaxPackages == 2       \* longest `packages` argument of a run
MaxPool == 3           \* most packages walk_debs() finds in the pool
MaxScore == 1          \* highest score match_deb() gives
MaxHooks == 1          \* longest prebuild / starting_build list
MaxInvocations == 2    \* sbuild() calls followed over one pool listing
MaxWorkers == 2        \* items parallel_sources() hands to its workers
MaxLength == 2         \* longest file and content-length
MaxDownloads == 2      \* download() calls followed for one destination

\* ------------------------------------------------------- text and parsing
NL == "\n"
SP == " "

\* the string literals of pre_flight, as characters
CHANGELOG == <<"c", "h", "a", "n", "g", "e", "l", "o", "g">>
COMMIT    == <<"c", "o", "m", "m", "i", "t">>

\* split a text at every character of seps, keeping empty pieces
RECURSIVE SplitOn(_, _)
SplitOn(s, seps) ==
    IF s = <<>> THEN << <<>> >>
    ELSE LET rest == SplitOn(Tail(s), seps)
         IN  IF Head(s) \in seps
             THEN << <<>> >> \o rest
             ELSE << <<Head(s)>> \o Head(rest) >> \o Tail(rest)

\* str::lines(): split at "\n"; a final empty piece is not a line
Lines(s) ==
    LET p == SplitOn(s, {NL})
    IN  IF p[Len(p)] = <<>> THEN SubSeq(p, 1, Len(p) - 1) ELSE p

NonEmpty(f) == f # <<>>

\* str::split_whitespace(): the non-empty pieces between whitespace
SplitWhitespace(s) == SelectSeq(SplitOn(s, {SP, NL}), NonEmpty)

\* ------------------------------------------------------------ the inputs
Names    == {"foo", "bar"}
Versions == { <<"1">>, <<"2">> }
Branches == { <<"m">>, <<"d">> }
Commits  == { <<"a">>, <<"e">> }

\* Source.build_on : Option<String>, as a sequence of at most one string
NoRule == <<>>
Rules  == { NoRule, <<"changelog">>, <<"commit">>, <<"magic">> }
Items  == [name : Names, build_on : Rules]

\* a file: absent, or present with its bytes
NoFile     == [exists |-> FALSE, data |-> <<>>]
File(data) == [exists |-> TRUE, data |-> data]

\* ------------------------------------------------------------- the state
VARIABLES
    record,      \* record[n]: the file record/<n>
    pc,          \* position of the build() call in progress
    item,        \* the Source being built
    force,       \* build()'s force argument
    calls,       \* build() calls made so far (history)
    recBefore,   \* the record files when the call began (history)
    cur,         \* what pre_flight inspected: <<version>> or <<branch, commit>>
    pending,     \* pre_flight's local `record`: Option<Record>
    recAccess,   \* pre_flight's use of the record file before the build:
                 \* "none", "probed" (exists() said no), "read", "failed"
    recWritten,  \* a write of the record file was attempted
    pf,          \* pre_flight: "none" (not called), "running", or its return:
                 \* "skip" (the early Ok), "Ok", "Err"
    sbuilt,      \* outcome of sbuild(): "not called", "Open", "Command", "Build", "Ok"
    pooled,      \* outcome of mv_to_pool(): "not called", "Ok", "Err"
    result       \* what build() returned: <<"Running">>, <<"Ok">>,
                 \* <<"Err", kind, ...>>, or <<"Panic">>

\* history: the inputs (`cur`) of the build() just before this one, when that
\* one was of the same Source, called sbuild() and returned Ok, and this one
\* is not forced; <<>> otherwise
VARIABLE after

\* history: what changelog() gave this call: "unread", "unreadable" (Err),
\* "no version" (an empty list), "listed" (a first version)
VARIABLE chlog

\* ---- a run of all() or packages() over config.source
VARIABLES
    mode,        \* "off" (no run), "all" or "packages"
    config,      \* config.source, a sequence of Sources (None as the empty one)
    packages,    \* the `packages` argument of packages(), a sequence of names
    rpc,         \* position of the run: "off", "head" (of the for loop),
                 \* "in build", "returned", "exited" (exit(1)), "panicked"
    built,       \* the counter `built` of packages()
    started,     \* indices into config of the build() calls made (history)
    outcomes     \* what those calls returned (history)

runVars == <<mode, config, packages, rpc, built, started, outcomes>>

\* ---- the stages of one build() call, and the directories they work on
VARIABLES
    source,      \* the Source's staging fields: [url, assets, debian]
    workspace,   \* build/<name> (project_directory) exists
    scratch,     \* /tmp/debrep/repo exists
    control,     \* control[place]: the debian directory found in a place
    cwd,         \* the process's current directory: "pwd" or "build"
    spc,         \* the stage build() is at
    trace,       \* the stages that did work, as <<stage, "ok" | "failed">> (history)
    faults,      \* the calls of merge_branch the environment made fail (history)
    sresult      \* what build() returned

stageVars == <<source, workspace, scratch, control, cwd, spc, trace, faults,
               sresult>>

\* ---- the command line sbuild() puts together
VARIABLES
    depends,         \* item.depends is Some(..)
    listing,         \* the pool as walk_debs() lists it, each package with
                     \* what match_deb() gives for it: <<>> or <<score>>
    prebuild,        \* item.prebuild: <<>> (None) or <<commands>>
    starting_build,  \* item.starting_build: likewise
    suite,           \* the `branch` argument
    selections,      \* per invocation, the listing indices of `temp` once
                     \* sorted (history)
    args             \* the argument list of the last command built

toolVars == <<depends, listing, prebuild, starting_build, suite, selections,
              args>>

\* ---- parallel_sources(): one worker per item, in one process
VARIABLES
    workdir,     \* the process's current directory, shared by the workers
    present,     \* the items whose sources/<name> exists
    cvs,         \* cvs[w]: item.cvs
    hooks,       \* the items with a prebuild command
    wpc,         \* wpc[w]: where worker w is in download_git() / build()
    found,       \* found[w]: what path.exists() told w
    gitIn,       \* gitIn[w]: <<>> or <<command, directory git ran in>> (history)
    toolIn,      \* toolIn[w]: <<>> or <<directory sbuild ran in>> (history)
    wres         \* wres[w]: what the worker's closure returned

fetchVars == <<workdir, present, cvs, hooks, wpc, found, gitIn, toolIn, wres>>

\* ---- download() of one item
VARIABLES
    dest,        \* the destination file: [exists, len]
    destBefore,  \* the destination when the call began (history)
    dpc,         \* where download() is
    capacity,    \* the local `capacity`
    lengthRead,  \* the length of the existing file could be read (history)
    reported,    \* the ContentLength header of the HEAD response: <<>> or
                 \* <<n>> (history)
    sent,        \* the requests sent in this call (history)
    dres,        \* what download() returned
    downloads    \* download() calls made so far (history)

downloadVars == <<dest, destBefore, dpc, capacity, lengthRead, reported, sent,
                  dres, downloads>>

\* what a run and its build() calls leave alone
outsideRun == <<stageVars, toolVars, fetchVars, downloadVars>>
\* what a call of build() leaves alone
outsideBuild == <<runVars, outsideRun>>
\* what no stage of build() touches
outsideCall == <<after, outsideBuild>>
\* what no stage but the reading of the changelog touches
outsideStage == <<chlog, outsideCall>>

buildVars == <<record, pc, item, force, calls, recBefore, cur, pending,
               recAccess, recWritten, pf, sbuilt, pooled, result, after, chlog>>

vars == <<buildVars, runVars, stageVars, toolVars, fetchVars, downloadVars>>

Running == <<"Running">>
Ok      == <<"Ok">>
Err2(kind, arg) == <<"Err", kind, arg>>

\* no build() call has been made yet
InitBuild ==
    /\ record = [n \in Names |-> NoFile]
    /\ pc = "idle"
    /\ item = [name |-> "foo", build_on |-> NoRule]
    /\ calls = 0
    /\ recBefore = [n \in Names |-> NoFile]
    /\ cur = <<>>
    /\ pending = <<>>
    /\ recAccess = "none"
    /\ recWritten = FALSE
    /\ pf = "none"
    /\ sbuilt = "not called"
    /\ pooled = "not called"
    /\ result = Running
    /\ after = <<>>
    /\ chlog = "unread"

\* no run is followed
RunOff ==
    /\ mode = "off"
    /\ config = <<>>
    /\ packages = <<>>
    /\ rpc = "off"
    /\ built = 0
    /\ started = <<>>
    /\ outcomes = <<>>

Places   == {"pwd", "build", "workspace"}
\* a debian directory: none, the one an earlier build left ("old"), the
\* cloned branch's ("branch"), the branch's files copied over an old one
\* ("mixed"), or the mirror of debian/<name> ("local")
Contents == {"none", "old", "branch", "mixed", "local"}

\* the stages are not followed one by one
StagesOff ==
    /\ source = [url |-> FALSE, assets |-> FALSE, debian |-> "None"]
    /\ workspace = FALSE
    /\ scratch = FALSE
    /\ control = [p \in Places |-> "none"]
    /\ cwd = "pwd"
    /\ spc = "off"
    /\ trace = <<>>
    /\ faults = {}
    /\ sresult = Running

\* the command line is not followed
ToolOff ==
    /\ depends = FALSE
    /\ listing = <<>>
    /\ prebuild = <<>>
    /\ starting_build = <<>>
    /\ suite = "bionic"
    /\ selections = <<>>
    /\ args = <<>>

Workers == 1..MaxWorkers

\* directories, as paths from the directory the program was started in
Root    == <<>>
Sources == <<"sources">>
Own(w)  == <<"sources", w>>          \* sources/<name> of worker w's item
Missing == <<"missing">>             \* a path that names nothing

\* parallel_sources() is not followed
FetchOff ==
    /\ workdir = Root
    /\ present = {}
    /\ cvs = [w \in Workers |-> "git"]
    /\ hooks = {}
    /\ wpc = [w \in Workers |-> "off"]
    /\ found = [w \in Workers |-> FALSE]
    /\ gitIn = [w \in Workers |-> <<>>]
    /\ toolIn = [w \in Workers |-> <<>>]
    /\ wres = [w \in Workers |-> Running]

NoDest == [exists |-> FALSE, len |-> 0]

\* download() is not followed
DownloadOff ==
    /\ dest = NoDest
    /\ destBefore = NoDest
    /\ dpc = "off"
    /\ capacity = 0
    /\ lengthRead = FALSE
    /\ reported = <<>>
    /\ sent = {}
    /\ dres = Running
    /\ downloads = 0

Init ==
    /\ InitBuild
    /\ force = FALSE
    /\ RunOff
    /\ StagesOff
    /\ ToolOff
    /\ FetchOff
    /\ DownloadOff

\* ------------------------------------------------------------ build() entry
\* build(item, pwd, branch, force) is entered: its locals start afresh, the
\* record files are what the earlier calls left.
BuildEnter(it, f) ==
    /\ pc \in {"idle", "done"}
    /\ calls' = calls + 1
    /\ item' = it
    /\ force' = f
    /\ recBefore' = record
    /\ cur' = <<>>
    /\ pending' = <<>>
    /\ recAccess' = "none"
    /\ recWritten' = FALSE
    /\ pf' = "none"
    /\ sbuilt' = "not called"
    /\ pooled' = "not called"
    /\ result' = Running
    /\ pc' = "staging"
    /\ after' = IF /\ result = Ok /\ sbuilt = "Ok" /\ item = it /\ ~f
                    /\ it.build_on \in { <<"changelog">>, <<"commit">> }
                 THEN cur
                 ELSE <<>>
    /\ chlog' = "unread"
    /\ UNCHANGED record

\* all() and packages() call build() for one Source after another; a later
\* run of the program finds the record files the earlier runs left. Here any
\* Source may follow any other, forced or not.
BuildCall(it, f) ==
    /\ calls < MaxCalls
    /\ BuildEnter(it, f)
    /\ UNCHANGED outsideBuild

\* The stages ahead of pre_flight: extract, fetch_assets, link_artifact,
\* merge_branch / rsync. Each either succeeds or returns its error with `?`.
StagingErrors == {"Extract", "Directory", "Link", "GitBranch", "Rsync"}

StagingOk ==
    /\ pc = "staging"
    /\ UNCHANGED outsideStage
    /\ pf' = "running"
    /\ pc' = "pre_flight"
    /\ UNCHANGED <<record, item, force, calls, recBefore, cur, pending,
                   recAccess, recWritten, sbuilt, pooled, result>>

StagingFails(kind) ==
    /\ pc = "staging"
    /\ UNCHANGED outsideStage
    /\ result' = Err2(kind, item.name)
    /\ pc' = "done"
    /\ UNCHANGED <<record, item, force, calls, recBefore, cur, pending,
                   recAccess, recWritten, pf, sbuilt, pooled>>

\* lines 153-155: the remote-archive metadata origin is unimplemented!():
\* the call panics and returns nothing
Panic == <<"Panic">>

StagingPanics ==
    /\ pc = "staging"
    /\ UNCHANGED outsideStage
    /\ result' = Panic
    /\ pc' = "done"
    /\ UNCHANGED <<record, item, force, calls, recBefore, cur, pending,
                   recAccess, recWritten, pf, sbuilt, pooled>>

\* --------------------------------------------------------------- pre_flight
\* lines 237-246: the record names this changelog version
VersionRecorded(data, version) ==
    LET ls == Lines(data)
    IN  /\ Len(ls) >= 2
        /\ ls[1] = CHANGELOG
        /\ ls[2] = version

\* lines 268-276: one record line names this (branch, commit)
EntryMatches(line, branch, commit) ==
    LET fields == SplitWhitespace(line)
    IN  /\ Len(fields) >= 2
        /\ fields[1] = branch
        /\ fields[2] = commit

\* lines 263-280: "skip" on a matching entry, "append" to a commit record
\* without one, "fresh" for any other content
CommitScan(data, branch, commit) ==
    LET ls == Lines(data)
    IN  IF Len(ls) >= 1 /\ ls[1] = COMMIT
        THEN IF \E i \in 2..Len(ls) : EntryMatches(ls[i], branch, commit)
             THEN "skip"
             ELSE "append"
        ELSE "fresh"

\* the values of pre_flight's enum Record
RecChangelog(version)            == <<"Changelog", version>>
RecCommit(branch, commit)        == <<"Commit", branch, commit>>
RecCommitAppend(branch, commit)  == <<"CommitAppend", branch, commit>>

\* lines 226-232: changelog() returns Err ("unreadable"), or Ok with an
\* empty list ("no version")
ChangelogOutcomes == {"unreadable", "no version"}

\* faulty variant: both outcomes reported as NoChangelogVersion
ChangelogUnavailable_OneError(outcome) ==
    /\ pc = "pre_flight"
    /\ UNCHANGED outsideCall
    /\ chlog' = outcome
    /\ item.build_on = <<"changelog">>
    /\ pf' = "Err"
    /\ result' = Err2("NoChangelogVersion", item.name)
    /\ pc' = "done"
    /\ UNCHANGED <<record, item, force, calls, recBefore, cur, pending,
                   recAccess, recWritten, sbuilt, pooled>>

ChangelogUnavailable(outcome) ==
    /\ pc = "pre_flight"
    /\ UNCHANGED outsideCall
    /\ chlog' = outcome
    /\ item.build_on = <<"changelog">>
    /\ pf' = "Err"
    /\ result' = IF outcome = "unreadable"
                 THEN Err2("Changelog", item.name)
                 ELSE Err2("NoChangelogVersion", item.name)
    /\ pc' = "done"
    /\ UNCHANGED <<record, item, force, calls, recBefore, cur, pending,
                   recAccess, recWritten, sbuilt, pooled>>

Skip == <<"Skip">>

\* lines 234-250: skip, or the record to write after the build
ChangelogDecision(rec, f, version) ==
    IF ~f /\ rec.exists /\ VersionRecorded(rec.data, version)
    THEN Skip
    ELSE RecChangelog(version)

\* lines 225-251: Some("changelog") with the first version in hand
PreFlightChangelog(version, readOk) ==
    /\ pc = "pre_flight"
    /\ UNCHANGED outsideCall
    /\ chlog' = "listed"
    /\ item.build_on = <<"changelog">>
    /\ cur' = <<version>>
    /\ LET rec  == record[item.name]
           reads == ~force /\ rec.exists
           d    == ChangelogDecision(rec, force, version)
       IN  IF reads /\ ~readOk
           THEN /\ recAccess' = "failed"
                /\ pf' = "Err"
                /\ result' = Err2("Read", item.name)
                /\ pc' = "done"
                /\ UNCHANGED pending
           ELSE /\ recAccess' = IF reads THEN "read" ELSE IF force THEN "none" ELSE "probed"
                /\ IF d = Skip
                   THEN /\ pf' = "skip"
                        /\ pc' = "pool"
                        /\ UNCHANGED pending
                   ELSE /\ pending' = d
                        /\ pc' = "sbuild"
                        /\ UNCHANGED pf
                /\ UNCHANGED result
    /\ UNCHANGED <<record, item, force, calls, recBefore, recWritten, sbuilt, pooled>>

\* lines 253-256: git() fails
GitUnavailable ==
    /\ pc = "pre_flight"
    /\ UNCHANGED outsideStage
    /\ item.build_on = <<"commit">>
    /\ pf' = "Err"
    /\ result' = Err2("GitCommit", item.name)
    /\ pc' = "done"
    /\ UNCHANGED <<record, item, force, calls, recBefore, cur, pending,
                   recAccess, recWritten, sbuilt, pooled>>

\* lines 258-291: skip, or the record to write after the build; `append`
\* is set only inside the `!force && record_path.exists()` branch
CommitDecision(rec, f, branch, commit) ==
    IF ~f /\ rec.exists
    THEN LET scan == CommitScan(rec.data, branch, commit)
         IN  IF scan = "skip" THEN Skip
             ELSE IF scan = "append" THEN RecCommitAppend(branch, commit)
             ELSE RecCommit(branch, commit)
    ELSE RecCommit(branch, commit)

\* lines 252-292: Some("commit") with (branch, commit) in hand
PreFlightCommit(branch, commit, readOk) ==
    /\ pc = "pre_flight"
    /\ UNCHANGED outsideStage
    /\ item.build_on = <<"commit">>
    /\ cur' = <<branch, commit>>
    /\ LET rec  == record[item.name]
           reads == ~force /\ rec.exists
           d    == CommitDecision(rec, force, branch, commit)
       IN  IF reads /\ ~readOk
           THEN /\ recAccess' = "failed"
                /\ pf' = "Err"
                /\ result' = Err2("Read", item.name)
                /\ pc' = "done"
                /\ UNCHANGED pending
           ELSE /\ recAccess' = IF reads THEN "read" ELSE IF force THEN "none" ELSE "probed"
                /\ IF d = Skip
                   THEN /\ pf' = "skip"
                        /\ pc' = "pool"
                        /\ UNCHANGED pending
                   ELSE /\ pending' = d
                        /\ pc' = "sbuild"
                        /\ UNCHANGED pf
                /\ UNCHANGED result
    /\ UNCHANGED <<record, item, force, calls, recBefore, recWritten, sbuilt, pooled>>

\* faulty variant: an unrecognized rule treated like no rule at all
PreFlightRule_FallsThrough ==
    /\ pc = "pre_flight"
    /\ UNCHANGED outsideStage
    /\ item.build_on \notin {NoRule, <<"changelog">>, <<"commit">>}
    /\ pc' = "sbuild"
    /\ UNCHANGED <<record, item, force, calls, recBefore, cur, pending,
                   recAccess, recWritten, pf, sbuilt, pooled, result>>

\* lines 293-295: Some(rule) for any other string
PreFlightRule ==
    /\ pc = "pre_flight"
    /\ UNCHANGED outsideStage
    /\ item.build_on \notin {NoRule, <<"changelog">>, <<"commit">>}
    /\ pf' = "Err"
    /\ result' = Err2("ConditionalRule", item.build_on[1])
    /\ pc' = "done"
    /\ UNCHANGED <<record, item, force, calls, recBefore, cur, pending,
                   recAccess, recWritten, sbuilt, pooled>>

\* faulty variant: no rule, yet an existing record makes a non-forced build skip
PreFlightNone_SkipsOnRecord ==
    /\ pc = "pre_flight"
    /\ UNCHANGED outsideStage
    /\ item.build_on = NoRule
    /\ IF ~force /\ record[item.name].exists
       THEN /\ recAccess' = "read"
            /\ pf' = "skip"
            /\ pc' = "pool"
       ELSE /\ pc' = "sbuild"
            /\ UNCHANGED <<recAccess, pf>>
    /\ UNCHANGED <<record, item, force, calls, recBefore, cur, pending,
                   recWritten, sbuilt, pooled, result>>

\* line 296: None
PreFlightNone ==
    /\ pc = "pre_flight"
    /\ UNCHANGED outsideStage
    /\ item.build_on = NoRule
    /\ pc' = "sbuild"
    /\ UNCHANGED <<record, item, force, calls, recBefore, cur, pending,
                   recAccess, recWritten, pf, sbuilt, pooled, result>>

\* ------------------------------------------------------------------- sbuild
\* lines 320-379: the log file cannot be opened ("Open"), the tool cannot be
\* launched ("Command"), it exits non-zero ("Build"), or it exits zero ("Ok")
SbuildOutcomes == {"Open", "Command", "Build", "Ok"}

\* faulty variant: every failure of sbuild() reported as a failed build
SbuildError_AlwaysBuild(outcome, name) == Err2("Build", name)

SbuildError(outcome, name) ==
    IF outcome = "Command" THEN Err2("Command", "sbuild") ELSE Err2(outcome, name)

\* faulty variant: the `?` on sbuild()'s result dropped, so a failure goes on
Sbuild_IgnoresFailure(outcome) ==
    /\ pc = "sbuild"
    /\ UNCHANGED outsideStage
    /\ sbuilt' = outcome
    /\ pc' = "record"
    /\ UNCHANGED <<record, item, force, calls, recBefore, cur, pending,
                   recAccess, recWritten, pf, pooled, result>>

Sbuild(outcome) ==
    /\ pc = "sbuild"
    /\ UNCHANGED outsideStage
    /\ sbuilt' = outcome
    /\ IF outcome = "Ok"
       THEN /\ pc' = "record"
            /\ UNCHANGED <<pf, result>>
       ELSE /\ pf' = "Err"
            /\ result' = SbuildError(outcome, item.name)
            /\ pc' = "done"
    /\ UNCHANGED <<record, item, force, calls, recBefore, cur, pending,
                   recAccess, recWritten, pooled>>

\* ------------------------------------------------------------ record update
\* lines 303, 307, 313: the bytes handed to the write
RecordBytes(p) ==
    IF p[1] = "Changelog" THEN CHANGELOG \o <<NL>> \o p[2]
    ELSE IF p[1] = "Commit" THEN COMMIT \o <<NL>> \o p[2] \o <<SP>> \o p[3]
    ELSE p[2] \o <<SP>> \o p[3]

\* faulty variant: every arm appends to the file
Written_Appends(old, p) == File(old.data \o RecordBytes(p))

\* lines 301-313: misc::write replaces the file; the CommitAppend arm opens
\* it with create(true).append(true) and writes at its end
Written(old, p) ==
    IF p[1] = "CommitAppend"
    THEN File(old.data \o RecordBytes(p))
    ELSE File(RecordBytes(p))

\* a write that fails leaves the file as it was, or (misc::write, failing
\* after it created the file) empty
FailedWrite(old, p, truncated) ==
    IF truncated /\ p[1] # "CommitAppend" THEN File(<<>>) ELSE old

\* line 314: nothing to record
RecordNone ==
    /\ pc = "record"
    /\ UNCHANGED outsideStage
    /\ pending = <<>>
    /\ pf' = "Ok"
    /\ pc' = "pool"
    /\ UNCHANGED <<record, item, force, calls, recBefore, cur, pending,
                   recAccess, recWritten, sbuilt, pooled, result>>

\* lines 301-317 with the write succeeding
RecordUpdate ==
    /\ pc = "record"
    /\ UNCHANGED outsideStage
    /\ pending # <<>>
    /\ record' = [record EXCEPT ![item.name] = Written(@, pending)]
    /\ recWritten' = TRUE
    /\ pf' = "Ok"
    /\ pc' = "pool"
    /\ UNCHANGED <<item, force, calls, recBefore, cur, pending,
                   recAccess, sbuilt, pooled, result>>

\* lines 301-317 with the write failing: RecordUpdate error
RecordUpdateFails(truncated) ==
    /\ pc = "record"
    /\ UNCHANGED outsideStage
    /\ pending # <<>>
    /\ record' = [record EXCEPT ![item.name] = FailedWrite(@, pending, truncated)]
    /\ recWritten' = TRUE
    /\ pf' = "Err"
    /\ result' = Err2("RecordUpdate", item.name)
    /\ pc' = "done"
    /\ UNCHANGED <<item, force, calls, recBefore, cur, pending,
                   recAccess, sbuilt, pooled>>

\* --------------------------------------------------------------- mv_to_pool
\* lines 188-190: reached whenever pre_flight returned Ok(())
MvToPool(ok) ==
    /\ pc = "pool"
    /\ UNCHANGED outsideStage
    /\ pooled' = IF ok THEN "Ok" ELSE "Err"
    /\ result' = IF ok THEN Ok ELSE Err2("Pool", item.name)
    /\ pc' = "done"
    /\ UNCHANGED <<record, item, force, calls, recBefore, cur, pending,
                   recAccess, recWritten, pf, sbuilt>>

\* ------------------------------------------------------- the specification
Next ==
    \/ \E it \in Items, f \in BOOLEAN : BuildCall(it, f)
    \/ StagingOk
    \/ \E kind \in StagingErrors : StagingFails(kind)
    \/ StagingPanics
    \/ \E o \in ChangelogOutcomes : ChangelogUnavailable(o)
    \/ \E v \in Versions, readOk \in BOOLEAN : PreFlightChangelog(v, readOk)
    \/ GitUnavailable
    \/ \E b \in Branches, c \in Commits, readOk \in BOOLEAN : PreFlightCommit(b, c, readOk)
    \/ PreFlightRule
    \/ PreFlightNone
    \/ \E o \in SbuildOutcomes : Sbuild(o)
    \/ RecordNone
    \/ RecordUpdate
    \/ \E truncated \in BOOLEAN : RecordUpdateFails(truncated)
    \/ \E ok \in BOOLEAN : MvToPool(ok)

Spec == Init /\ [][Next]_vars

\* ------------------------------------------------- all() and packages()
SeqsUpTo(S, n) == UNION { [1..k -> S] : k \in 0..n }

\* the build variables a run leaves to build() itself
buildLocals == <<record, pc, item, calls, recBefore, cur, pending, recAccess,
                 recWritten, pf, sbuilt, pooled, result, after, chlog>>

\* the indices of config.source the loop visits, in order: all of them in
\* all(), those passing filter(|item| packages.contains(name)) in packages()
Selected ==
    LET contains(i) == \E j \in 1..Len(packages) : packages[j] = config[i].name
        keep(i) == mode = "all" \/ contains(i)
    IN  SelectSeq([i \in 1..Len(config) |-> i], keep)

\* a run begins: all(config) calls every build with force = false,
\* packages(config, packages, force) with its own force
InitRun ==
    /\ InitBuild
    /\ mode \in {"all", "packages"}
    /\ config \in SeqsUpTo(Items, MaxSources)
    /\ packages \in IF mode = "all" THEN {<<>>} ELSE SeqsUpTo(Names, MaxPackages)
    /\ force \in IF mode = "all" THEN {FALSE} ELSE BOOLEAN
    /\ rpc = "head"
    /\ built = 0
    /\ started = <<>>
    /\ outcomes = <<>>
    /\ StagesOff
    /\ ToolOff
    /\ FetchOff
    /\ DownloadOff

\* the for loop takes the next Source and calls build() on it
LoopBuild ==
    /\ rpc = "head"
    /\ Len(started) < Len(Selected)
    /\ LET i == Selected[Len(started) + 1]
       IN  /\ BuildEnter(config[i], force)
           /\ started' = Append(started, i)
    /\ rpc' = "in build"
    /\ UNCHANGED <<mode, config, packages, built, outcomes>>
    /\ UNCHANGED outsideRun

\* the iterator is exhausted: the function returns
LoopEnd ==
    /\ rpc = "head"
    /\ Len(started) = Len(Selected)
    /\ rpc' = "returned"
    /\ UNCHANGED <<mode, config, packages, built, started, outcomes>>
    /\ UNCHANGED <<buildLocals, force>>
    /\ UNCHANGED outsideRun

\* build() returned Ok: all() goes on; packages() counts and breaks once
\* built == packages.len()
BuildReturnsOk ==
    /\ rpc = "in build"
    /\ pc = "done"
    /\ result = Ok
    /\ outcomes' = Append(outcomes, result)
    /\ built' = IF mode = "packages" THEN built + 1 ELSE built
    /\ rpc' = IF mode = "packages" /\ built' = Len(packages)
              THEN "returned"
              ELSE "head"
    /\ UNCHANGED <<mode, config, packages, started>>
    /\ UNCHANGED <<buildLocals, force>>
    /\ UNCHANGED outsideRun

\* faulty variant: the error is logged and the loop goes on
BuildReturnsErr_Continues ==
    /\ rpc = "in build"
    /\ pc = "done"
    /\ result[1] = "Err"
    /\ outcomes' = Append(outcomes, result)
    /\ rpc' = "head"
    /\ UNCHANGED <<mode, config, packages, built, started>>
    /\ UNCHANGED <<buildLocals, force>>
    /\ UNCHANGED outsideRun

\* build() returned Err(why): error!(..); exit(1)
BuildReturnsErr ==
    /\ rpc = "in build"
    /\ pc = "done"
    /\ result[1] = "Err"
    /\ outcomes' = Append(outcomes, result)
    /\ rpc' = "exited"
    /\ UNCHANGED <<mode, config, packages, built, started>>
    /\ UNCHANGED <<buildLocals, force>>
    /\ UNCHANGED outsideRun

\* build() panicked (unimplemented!()): the panic unwinds through the loop
BuildPanics ==
    /\ rpc = "in build"
    /\ pc = "done"
    /\ result = Panic
    /\ outcomes' = Append(outcomes, result)
    /\ rpc' = "panicked"
    /\ UNCHANGED <<mode, config, packages, built, started>>
    /\ UNCHANGED <<buildLocals, force>>
    /\ UNCHANGED outsideRun

\* a run: its loop, and the stages of the build() call in progress
NextRun ==
    \/ LoopBuild
    \/ LoopEnd
    \/ BuildReturnsOk
    \/ BuildReturnsErr
    \/ BuildPanics
    \/ StagingOk
    \/ \E kind \in StagingErrors : StagingFails(kind)
    \/ StagingPanics
    \/ \E o \in ChangelogOutcomes : ChangelogUnavailable(o)
    \/ \E v \in Versions, readOk \in BOOLEAN : PreFlightChangelog(v, readOk)
    \/ GitUnavailable
    \/ \E b \in Branches, c \in Commits, readOk \in BOOLEAN : PreFlightCommit(b, c, readOk)
    \/ PreFlightRule
    \/ PreFlightNone
    \/ \E o \in SbuildOutcomes : Sbuild(o)
    \/ RecordNone
    \/ RecordUpdate
    \/ \E truncated \in BOOLEAN : RecordUpdateFails(truncated)
    \/ \E ok \in BOOLEAN : MvToPool(ok)

SpecRun == InitRun /\ [][NextRun]_vars

\* ------------------------------------------------ the stages of build()
outsideStages == <<buildVars, runVars, toolVars, fetchVars, downloadVars>>

\* build() is called in directory pwd for some Source; the workspace, the
\* scratch clone and debian directories may be there from an earlier run
InitStages ==
    /\ InitBuild
    /\ force = FALSE
    /\ RunOff
    /\ source \in [url : BOOLEAN, assets : BOOLEAN,
                   debian : {"URL", "Branch", "None"}]
    /\ workspace \in BOOLEAN
    /\ scratch \in BOOLEAN
    /\ control \in { [p \in Places |-> IF p \in old THEN "old" ELSE "none"] :
                       old \in SUBSET {"pwd", "workspace"} }
    /\ cwd = "pwd"
    /\ spc = "create"
    /\ trace = <<>>
    /\ faults = {}
    /\ sresult = Running
    /\ ToolOff
    /\ FetchOff
    /\ DownloadOff

Did(stage, ok) == Append(trace, <<stage, IF ok THEN "ok" ELSE "failed">>)

\* let _ = fs::create_dir_all(&project_directory): the result is dropped
CreateWorkspace(ok) ==
    /\ spc = "create"
    /\ ~ok => ~workspace
    /\ workspace' = (workspace \/ ok)
    /\ trace' = Did("workspace", ok)
    /\ spc' = "extract"
    /\ UNCHANGED <<source, scratch, control, cwd, faults, sresult>>
    /\ UNCHANGED outsideStages

\* extract::extract(..)?, for a Source located by URL only
Extract(ok) ==
    /\ spc = "extract"
    /\ IF source.url
       THEN /\ trace' = Did("extract", ok)
            /\ spc' = IF ok THEN "local" ELSE "done"
            /\ sresult' = IF ok THEN sresult ELSE Err2("Extract", "build")
       ELSE /\ ok
            /\ spc' = "local"
            /\ UNCHANGED <<trace, sresult>>
    /\ UNCHANGED <<source, workspace, scratch, control, cwd, faults>>
    /\ UNCHANGED outsideStages

LocalOutcomes == {"absent", "Ok", "Directory", "Link"}

\* fetch_assets(..)? when assets/packages/<name> exists
LocalAssets(outcome) ==
    /\ spc = "local"
    /\ IF outcome = "absent"
       THEN /\ spc' = "glob"
            /\ UNCHANGED <<trace, sresult>>
       ELSE /\ trace' = Did("local assets", outcome = "Ok")
            /\ spc' = IF outcome = "Ok" THEN "glob" ELSE "done"
            /\ sresult' = IF outcome = "Ok" THEN sresult
                          ELSE Err2(outcome, "assets")
    /\ UNCHANGED <<source, workspace, scratch, control, cwd, faults>>
    /\ UNCHANGED outsideStages

GlobOutcomes == {"linked", "bad pattern", "Link"}

\* every file matching an asset's glob is linked with link_artifact(..)?;
\* a pattern glob() rejects is passed over (if let Ok(globs))
GlobAssets(outcome) ==
    /\ spc = "glob"
    /\ IF source.assets
       THEN /\ trace' = Did("glob assets", outcome = "linked")
            /\ spc' = IF outcome = "Link" THEN "done" ELSE "metadata"
            /\ sresult' = IF outcome = "Link" THEN Err2("Link", "assets")
                          ELSE sresult
       ELSE /\ outcome = "linked"
            /\ spc' = "metadata"
            /\ UNCHANGED <<trace, sresult>>
    /\ UNCHANGED <<source, workspace, scratch, control, cwd, faults>>
    /\ UNCHANGED outsideStages

\* Some(DebianPath::URL {..}) => unimplemented!()
DebianURL ==
    /\ spc = "metadata"
    /\ source.debian = "URL"
    /\ trace' = Did("metadata", FALSE)
    /\ sresult' = Panic
    /\ spc' = "done"
    /\ UNCHANGED <<source, workspace, scratch, control, cwd, faults>>
    /\ UNCHANGED outsideStages

CommandOutcomes == {"no spawn", "exit 1", "exit 0"}

\* cp -r <dir> . copies into the current directory; files of a debian
\* directory already there stay unless the copy has one of the same name
CopiedInto(c, place) ==
    [c EXCEPT ![place] = IF @ = "none" THEN "branch" ELSE "mixed"]

\* merge_branch(url, branch): create_dir_all("/tmp/debrep")?;
\* remove_dir_all("/tmp/debrep/repo")?; git clone .. .status()?;
\* cp -r /tmp/debrep/repo/debian . .status()?  -- an exit status that is
\* not success is not looked at
MergeBranch(tmpOk, rmOk, clone, copy) ==
    /\ spc = "metadata"
    /\ source.debian = "Branch"
    /\ LET removed == tmpOk /\ scratch /\ rmOk
           cloned  == removed /\ clone = "exit 0"
           copyRan == removed /\ clone # "no spawn"
           copied  == copyRan /\ copy = "exit 0"
           err     == ~removed \/ clone = "no spawn" \/ copy = "no spawn"
       IN  /\ copied => cloned      \* cp finds a directory only after a clone
           /\ scratch' = IF removed THEN cloned ELSE scratch
           /\ control' = IF copied THEN CopiedInto(control, cwd) ELSE control
           /\ faults' = { f \in {"mkdir", "remove", "clone", "copy"} :
                            \/ f = "mkdir" /\ ~tmpOk
                            \/ f = "remove" /\ tmpOk /\ scratch /\ ~rmOk
                            \/ f = "clone" /\ removed /\ ~cloned
                            \/ f = "copy" /\ cloned /\ ~copied }
           /\ trace' = Did("metadata", ~err /\ cloned /\ copied)
           /\ sresult' = IF err THEN Err2("GitBranch", "branch") ELSE sresult
           /\ spc' = IF err THEN "done" ELSE "pre_flight"
    /\ UNCHANGED <<source, workspace, cwd>>
    /\ UNCHANGED outsideStages

\* the mirror rsync() leaves in the workspace
Mirrored(c) == [c EXCEPT !["workspace"] = "local"]

MirrorOutcomes == {"absent", "Ok", "Rsync"}

\* None: rsync(debian/<name>/, build/<name>/debian)? when the former exists
DebianNone(outcome) ==
    /\ spc = "metadata"
    /\ source.debian = "None"
    /\ IF outcome = "absent"
       THEN /\ spc' = "pre_flight"
            /\ UNCHANGED <<trace, sresult, control>>
       ELSE /\ trace' = Did("metadata", outcome = "Ok")
            /\ control' = IF outcome = "Ok" THEN Mirrored(control) ELSE control
            /\ spc' = IF outcome = "Ok" THEN "pre_flight" ELSE "done"
            /\ sresult' = IF outcome = "Ok" THEN sresult
                          ELSE Err2("Rsync", "debian")
    /\ UNCHANGED <<source, workspace, scratch, cwd, faults>>
    /\ UNCHANGED outsideStages

\* let _ = set_current_dir("build"); pre_flight(..)?;
\* let _ = set_current_dir("..")  -- not reached when pre_flight fails
PreFlight(ok) ==
    /\ spc = "pre_flight"
    /\ trace' = Did("pre_flight", ok)
    /\ cwd' = IF ok THEN "pwd" ELSE "build"
    /\ spc' = IF ok THEN "pool" ELSE "done"
    /\ sresult' = IF ok THEN sresult ELSE Err2("PreFlight", "build")
    /\ UNCHANGED <<source, workspace, scratch, control, faults>>
    /\ UNCHANGED outsideStages

\* mv_to_pool("build", branch, keep_source).map_err(Pool)
Pool(ok) ==
    /\ spc = "pool"
    /\ trace' = Did("pool", ok)
    /\ sresult' = IF ok THEN Ok ELSE Err2("Pool", "build")
    /\ spc' = "done"
    /\ UNCHANGED <<source, workspace, scratch, control, cwd, faults>>
    /\ UNCHANGED outsideStages

NextStages ==
    \/ \E ok \in BOOLEAN : CreateWorkspace(ok)
    \/ \E ok \in BOOLEAN : Extract(ok)
    \/ \E o \in LocalOutcomes : LocalAssets(o)
    \/ \E o \in GlobOutcomes : GlobAssets(o)
    \/ DebianURL
    \/ \E tmpOk \in BOOLEAN, rmOk \in BOOLEAN,
          clone \in CommandOutcomes, copy \in CommandOutcomes :
            MergeBranch(tmpOk, rmOk, clone, copy)
    \/ \E o \in MirrorOutcomes : DebianNone(o)
    \/ \E ok \in BOOLEAN : PreFlight(ok)
    \/ \E ok \in BOOLEAN : Pool(ok)

SpecStages == InitStages /\ [][NextStages]_vars

\* ---------------------------------------------- sbuild()'s command line
outsideTool == <<buildVars, runVars, stageVars, fetchVars, downloadVars>>

Debs     == {"a.deb", "b.deb"}
Scores   == 0..MaxScore
Commands == {"make"}
Suites   == {"bionic"}
HookLists == { <<>> } \cup { <<l>> : l \in SeqsUpTo(Commands, MaxHooks) }

\* sbuild() is called for a Source, over some state of the pool
InitTool ==
    /\ InitBuild
    /\ force = FALSE
    /\ RunOff
    /\ StagesOff
    /\ depends \in BOOLEAN
    /\ listing \in SeqsUpTo([deb : Debs, score : {<<>>} \cup {<<n>> : n \in Scores}],
                            MaxPool)
    /\ prebuild \in HookLists
    /\ starting_build \in HookLists
    /\ suite \in Suites
    /\ selections = <<>>
    /\ args = <<>>
    /\ FetchOff
    /\ DownloadOff

\* the indices of the pool entries match_deb() keeps, in listing order:
\* walk_debs(..).flat_map(|deb| match_deb(&deb, depends)).collect()
Matching ==
    LET kept(i) == listing[i].score # <<>>
    IN  SelectSeq([i \in 1..Len(listing) |-> i], kept)

ScoreAt(i) == listing[i].score[1]

\* where x stands in temp (temp repeats no element)
Position(temp, x) == CHOOSE k \in 1..Len(temp) : temp[k] = x

\* out holds the elements of temp, each once
Rearranged(temp, out) ==
    /\ Len(out) = Len(temp)
    /\ \A k \in 1..Len(temp) : \E i \in 1..Len(out) : out[i] = temp[k]

\* faulty variant: sort_unstable_by, free to reorder equal scores
SortBy_Unstable(temp, out) ==
    /\ Rearranged(temp, out)
    /\ \A i, j \in 1..Len(out) : i < j => ScoreAt(out[i]) <= ScoreAt(out[j])

\* temp.sort_by(|a, b| a.1.cmp(&b.1)): `out` is `temp` sorted by score, the
\* sort being stable (elements comparing equal are not reordered)
SortBy(temp, out) ==
    /\ Rearranged(temp, out)
    /\ \A i, j \in 1..Len(out) :
          i < j => \/ ScoreAt(out[i]) < ScoreAt(out[j])
                   \/ /\ ScoreAt(out[i]) = ScoreAt(out[j])
                      /\ Position(temp, out[i]) < Position(temp, out[j])

Flag(name, values) == [i \in 1..Len(values) |-> <<name, values[i]>>]
Listed(option) == IF option = <<>> THEN <<>> ELSE option[1]

\* faulty variant: the hooks in the other order
CommandLine_HooksSwapped(extra, path) ==
    << <<"-v">>, <<"--log-external-command-output">>,
       <<"--log-external-command-error">>, <<"-d">>, <<suite>> >>
    \o Flag("--extra-package=", extra)
    \o Flag("--starting-build-commands=", Listed(starting_build))
    \o Flag("--pre-build-commands=", Listed(prebuild))
    \o << <<path>> >>

\* the arguments in the order sbuild() adds them
CommandLine(extra, path) ==
    << <<"-v">>, <<"--log-external-command-output">>,
       <<"--log-external-command-error">>, <<"-d">>, <<suite>> >>
    \o Flag("--extra-package=", extra)
    \o Flag("--pre-build-commands=", Listed(prebuild))
    \o Flag("--starting-build-commands=", Listed(starting_build))
    \o << <<path>> >>

ExtraPackages(sel) == [i \in 1..Len(sel) |-> listing[sel[i]].deb]

\* one call of sbuild() up to command.join()
SbuildCommand(sorted) ==
    /\ Len(selections) < MaxInvocations
    /\ IF depends THEN SortBy(Matching, sorted) ELSE sorted = <<>>
    /\ selections' = Append(selections, sorted)
    /\ args' = CommandLine(ExtraPackages(sorted), "build/foo")
    /\ UNCHANGED <<depends, listing, prebuild, starting_build, suite>>
    /\ UNCHANGED outsideTool

NextTool ==
    \/ \E sorted \in SeqsUpTo(1..MaxPool, MaxPool) : SbuildCommand(sorted)

SpecTool == InitTool /\ [][NextTool]_vars

\* ------------------------------------------------- parallel_sources()
outsideFetch == <<buildVars, runVars, stageVars, toolVars, downloadVars>>

\* parallel_sources(items, branch) is called in the directory that holds
\* sources/; par_iter() gives every item to a worker of one thread pool
InitFetch ==
    /\ InitBuild
    /\ force = FALSE
    /\ RunOff
    /\ StagesOff
    /\ ToolOff
    /\ workdir = Root
    /\ present \in SUBSET Workers
    /\ cvs \in [Workers -> {"git", "svn"}]
    /\ hooks \in SUBSET Workers
    /\ wpc = [w \in Workers |-> "match"]
    /\ found = [w \in Workers |-> FALSE]
    /\ gitIn = [w \in Workers |-> <<>>]
    /\ toolIn = [w \in Workers |-> <<>>]
    /\ wres = [w \in Workers |-> Running]
    /\ DownloadOff

\* a relative path names what it names from the current directory; nothing
\* under sources/<name> is called sources
Resolve(path) == IF workdir = Root THEN path ELSE Missing

\* match item.cvs: anything but "git" is UnsupportedCVS
Unsupported(w) ==
    /\ wpc[w] = "match"
    /\ cvs[w] # "git"
    /\ wres' = [wres EXCEPT ![w] = Err2("UnsupportedCVS", w)]
    /\ wpc' = [wpc EXCEPT ![w] = "done"]
    /\ UNCHANGED <<workdir, present, cvs, hooks, found, gitIn, toolIn>>
    /\ UNCHANGED outsideFetch

\* download_git: path.exists() for the relative path sources/<name>
Exists(w) ==
    /\ wpc[w] = "match"
    /\ cvs[w] = "git"
    /\ found' = [found EXCEPT ![w] = Resolve(Own(w)) = Own(w) /\ w \in present]
    /\ wpc' = [wpc EXCEPT ![w] = "git"]
    /\ UNCHANGED <<workdir, present, cvs, hooks, gitIn, toolIn, wres>>
    /\ UNCHANGED outsideFetch

\* git -C sources pull origin master, or git -C sources clone <url>: git
\* changes to `sources` from the current directory and works there
Git(w, outcome) ==
    /\ wpc[w] = "git"
    /\ LET at == Resolve(Sources)
           op == IF found[w] THEN "pull" ELSE "clone"
       IN  /\ at = Missing => outcome # "exit 0"
           /\ gitIn' = [gitIn EXCEPT ![w] = <<op, at>>]
           /\ present' = IF op = "clone" /\ outcome = "exit 0"
                         THEN present \cup {w}
                         ELSE present
           /\ wres' = [wres EXCEPT ![w] =
                         CASE outcome = "no spawn" -> Err2("GitRequest", w)
                           [] outcome = "exit 1"   -> Err2("GitFailed", w)
                           [] outcome = "exit 0"   -> @]
           /\ wpc' = [wpc EXCEPT ![w] = IF outcome = "exit 0" THEN "build"
                                        ELSE "done"]
    /\ UNCHANGED <<workdir, cvs, hooks, found, toolIn>>
    /\ UNCHANGED outsideFetch

\* build: let _ = env::set_current_dir(path), path being sources/<name>
SetCurrentDir(w) ==
    /\ wpc[w] = "build"
    /\ workdir' = IF Resolve(Own(w)) = Own(w) /\ w \in present
                  THEN Own(w)
                  ELSE workdir
    /\ wpc' = [wpc EXCEPT ![w] = IF w \in hooks THEN "prebuild" ELSE "sbuild"]
    /\ UNCHANGED <<present, cvs, hooks, found, gitIn, toolIn, wres>>
    /\ UNCHANGED outsideFetch

\* build: sh -c <command> for the prebuild command
Prebuild(w, outcome) ==
    /\ wpc[w] = "prebuild"
    /\ wres' = [wres EXCEPT ![w] =
                  CASE outcome = "no spawn" -> Err2("BuildCommand", w)
                    [] outcome = "exit 1"   -> Err2("BuildFailed", w)
                    [] outcome = "exit 0"   -> @]
    /\ wpc' = [wpc EXCEPT ![w] = IF outcome = "exit 0" THEN "sbuild" ELSE "done"]
    /\ UNCHANGED <<workdir, present, cvs, hooks, found, gitIn, toolIn>>
    /\ UNCHANGED outsideFetch

\* build: sbuild --arch-all --dist=<branch> --quiet . , in the current directory
SbuildHere(w, outcome) ==
    /\ wpc[w] = "sbuild"
    /\ toolIn' = [toolIn EXCEPT ![w] = <<workdir>>]
    /\ wres' = [wres EXCEPT ![w] =
                  CASE outcome = "no spawn" -> Err2("BuildCommand", w)
                    [] outcome = "exit 1"   -> Err2("BuildFailed", w)
                    [] outcome = "exit 0"   -> Ok]
    /\ wpc' = [wpc EXCEPT ![w] = "done"]
    /\ UNCHANGED <<workdir, present, cvs, hooks, found, gitIn>>
    /\ UNCHANGED outsideFetch

NextFetch ==
    \/ \E w \in Workers : Unsupported(w)
    \/ \E w \in Workers : Exists(w)
    \/ \E w \in Workers, o \in CommandOutcomes : Git(w, o)
    \/ \E w \in Workers : SetCurrentDir(w)
    \/ \E w \in Workers, o \in CommandOutcomes : Prebuild(w, o)
    \/ \E w \in Workers, o \in CommandOutcomes : SbuildHere(w, o)

SpecFetch == InitFetch /\ [][NextFetch]_vars

\* ------------------------------------------------------------ download()
outsideDownload == <<buildVars, runVars, stageVars, toolVars, fetchVars>>

Lengths  == 0..MaxLength
Headers  == { <<>> } \cup { <<n>> : n \in Lengths }
AlreadyExists == <<"AlreadyExists">>
Downloaded(n) == <<"Downloaded", n>>

\* download() is called for a destination that is there, with some length,
\* or is not
InitDownload ==
    /\ InitBuild
    /\ force = FALSE
    /\ RunOff
    /\ StagesOff
    /\ ToolOff
    /\ FetchOff
    /\ dest \in {NoDest} \cup { [exists |-> TRUE, len |-> n] : n \in Lengths }
    /\ destBefore = dest
    /\ dpc = "idle"
    /\ capacity = 0
    /\ lengthRead = FALSE
    /\ reported = <<>>
    /\ sent = {}
    /\ dres = Running
    /\ downloads = 0

\* check_length(response, compared): the header, or 0 without one, == compared
check_length(header, compared) ==
    (IF header = <<>> THEN 0 ELSE header[1]) = compared

\* download() up to the choice between AlreadyExists and a transfer: the
\* length of an existing file (0 when it cannot be read), the HEAD request,
\* check_length
Probe(metaOk, headOk, header) ==
    /\ dpc \in {"idle", "done"}
    /\ downloads < MaxDownloads
    /\ downloads' = downloads + 1
    /\ destBefore' = dest
    /\ IF dest.exists
       THEN /\ capacity' = IF metaOk THEN dest.len ELSE 0
            /\ lengthRead' = metaOk
            /\ sent' = {"HEAD"}
            /\ reported' = IF headOk THEN header ELSE <<>>
            /\ headOk \/ header = <<>>
            /\ IF ~headOk
               THEN dres' = Err2("Request", "item") /\ dpc' = "done"
               ELSE IF check_length(header, capacity')
                    THEN dres' = AlreadyExists /\ dpc' = "done"
                    ELSE dres' = Running /\ dpc' = "create"
       ELSE /\ metaOk /\ headOk /\ header = <<>>
            /\ capacity' = 0
            /\ lengthRead' = FALSE
            /\ sent' = {}
            /\ reported' = <<>>
            /\ dres' = Running
            /\ dpc' = "create"
    /\ UNCHANGED dest
    /\ UNCHANGED outsideDownload

\* File::create(destination), after create_dir_all(&parent) for a new file
Create(ok) ==
    /\ dpc = "create"
    /\ dest' = IF ok THEN [exists |-> TRUE, len |-> 0] ELSE dest
    /\ dres' = IF ok THEN dres ELSE Err2("File", "item")
    /\ dpc' = IF ok THEN "get" ELSE "done"
    /\ UNCHANGED <<destBefore, capacity, lengthRead, reported, sent, downloads>>
    /\ UNCHANGED outsideDownload

\* client.get(url).send()
Get(ok) ==
    /\ dpc = "get"
    /\ sent' = sent \cup {"GET"}
    /\ dres' = IF ok THEN dres ELSE Err2("Request", "item")
    /\ dpc' = IF ok THEN "copy" ELSE "done"
    /\ UNCHANGED <<dest, destBefore, capacity, lengthRead, reported, downloads>>
    /\ UNCHANGED outsideDownload

\* response.copy_to(&mut dest): n bytes written, all of the body or not
CopyTo(ok, n) ==
    /\ dpc = "copy"
    /\ dest' = [dest EXCEPT !.len = n]
    /\ dres' = IF ok THEN Downloaded(n) ELSE Err2("Request", "item")
    /\ dpc' = "done"
    /\ UNCHANGED <<destBefore, capacity, lengthRead, reported, sent, downloads>>
    /\ UNCHANGED outsideDownload

NextDownload ==
    \/ \E metaOk \in BOOLEAN, headOk \in BOOLEAN, header \in Headers :
          Probe(metaOk, headOk, header)
    \/ \E ok \in BOOLEAN : Create(ok)
    \/ \E ok \in BOOLEAN : Get(ok)
    \/ \E ok \in BOOLEAN, n \in Lengths : CopyTo(ok, n)

SpecDownload == InitDownload /\ [][NextDownload]_vars

\* ================================================================ properties
Done        == pc = "done"
Name        == item.name
ToolInvoked == sbuilt # "not called"     \* control reached sbuild(), the Invoker
Strategy(r) == item.build_on = <<r>>

\* the record's kind and entries, as pre_flight parses them
IsChangelogKind(data) == Len(Lines(data)) >= 1 /\ Lines(data)[1] = CHANGELOG
IsCommitKind(data)    == Len(Lines(data)) >= 1 /\ Lines(data)[1] = COMMIT
Pairs(data) ==
    LET ls == Lines(data)
        fs == { SplitWhitespace(ls[i]) : i \in 2..Len(ls) }
    IN  { <<f[1], f[2]>> : f \in { g \in fs : Len(g) >= 2 } }

\* the record text of section 6: one `<branch> <commit>` line per pair
PairLine(pair) == pair[1] \o <<SP>> \o pair[2]

\* a non-forced commit build found a commit record without the current pair
CommitRecordLacksPair ==
    /\ Strategy("commit")
    /\ ~force
    /\ Len(cur) = 2
    /\ recAccess = "read"
    /\ IsCommitKind(recBefore[Name].data)
    /\ <<cur[1], cur[2]>> \notin Pairs(recBefore[Name].data)

\* C1: a non-forced commit build on a commit record that lacks the current
\* (branch, commit) invokes the tool and, once the build has succeeded and
\* the record is updated, the record is the old lines followed by one new
\* `<branch> <commit>` line, every earlier pair still being an entry.
C1_AppendKeepsPairs ==
    (Done /\ CommitRecordLacksPair) =>
        /\ ToolInvoked
        /\ (sbuilt = "Ok" /\ pf = "Ok") =>
              /\ Lines(record[Name].data) =
                    Lines(recBefore[Name].data) \o << PairLine(cur) >>
              /\ Pairs(record[Name].data) =
                    Pairs(recBefore[Name].data) \cup { <<cur[1], cur[2]>> }

\* what a non-forced build from the file `old` with the inputs `c` leaves
NonForcedRecord(old, c) ==
    LET d == IF Len(c) = 1
             THEN ChangelogDecision(old, FALSE, c[1])
             ELSE CommitDecision(old, FALSE, c[1], c[2])
    IN  IF d = Skip THEN old ELSE Written(old, d)

\* C2: a forced changelog or commit build always invokes the tool, and the
\* record after its successful update is the one a non-forced build from the
\* same prior record and inputs leaves; on a commit record every earlier
\* pair is kept and the current one added.
C2_ForceSameRecord ==
    (Done /\ force /\ (Strategy("changelog") \/ Strategy("commit")) /\ cur # <<>>) =>
        /\ ToolInvoked
        /\ (sbuilt = "Ok" /\ pf = "Ok") =>
              /\ record[Name] = NonForcedRecord(recBefore[Name], cur)
              /\ (Strategy("commit") /\ IsCommitKind(recBefore[Name].data)) =>
                    Pairs(record[Name].data) =
                        Pairs(recBefore[Name].data) \cup { <<cur[1], cur[2]>> }

\* a non-forced changelog build read a changelog record of the current version
ChangelogRecordMatches ==
    /\ Strategy("changelog")
    /\ ~force
    /\ Len(cur) = 1
    /\ recAccess = "read"
    /\ VersionRecorded(recBefore[Name].data, cur[1])

\* C3: a non-forced changelog build whose record holds the current version
\* returns success, does not invoke the tool and leaves the record unchanged.
C3_ChangelogSkip ==
    (Done /\ ChangelogRecordMatches) =>
        /\ result = Ok
        /\ ~ToolInvoked
        /\ record = recBefore

\* a changelog build found no record, or one of another version
ChangelogRecordDiffers ==
    /\ Strategy("changelog")
    /\ Len(cur) = 1
    /\ recAccess # "failed"
    /\ \/ ~recBefore[Name].exists
       \/ /\ IsChangelogKind(recBefore[Name].data)
          /\ Len(Lines(recBefore[Name].data)) >= 2
          /\ Lines(recBefore[Name].data)[2] # cur[1]

ChangelogRecord(version) == File(CHANGELOG \o <<NL>> \o version)

CommitRecordHasPair ==
    /\ Strategy("commit")
    /\ ~force
    /\ Len(cur) = 2
    /\ recAccess = "read"
    /\ IsCommitKind(recBefore[Name].data)
    /\ <<cur[1], cur[2]>> \in Pairs(recBefore[Name].data)

\* C5: a non-forced commit build whose commit record contains the current
\* (branch, commit) returns success, does not invoke the tool and leaves the
\* record unchanged.
C5_CommitSkip ==
    (Done /\ CommitRecordHasPair) =>
        /\ result = Ok
        /\ ~ToolInvoked
        /\ record = recBefore

\* C6: the record files change, and a write of one is attempted, only after
\* sbuild() returned Ok in the same call; when the log cannot be opened, the
\* tool cannot be launched or it exits non-zero, they are as the call found
\* them.
C6_RecordWrittenOnlyAfterBuild ==
    /\ recWritten => sbuilt = "Ok"
    /\ sbuilt # "Ok" => record = recBefore
    /\ \A n \in Names \ {Name} : record[n] = recBefore[n]

C6_Witness ==
    /\ Done
    /\ sbuilt \in {"Open", "Command", "Build"}
    /\ pending # <<>>
    /\ IsChangelogKind(recBefore[Name].data)
    /\ Written(recBefore[Name], pending) # recBefore[Name]
    /\ record = recBefore

\* C7: mv_to_pool is called only when sbuild() was called in the same
\* build() and returned Ok; a skipped build does not reach it.
C7_PoolOnlyAfterBuild ==
    pooled # "not called" => sbuilt = "Ok"

Unrecognized == item.build_on \notin {NoRule, <<"changelog">>, <<"commit">>}

RecordUntouched ==
    /\ recAccess = "none"
    /\ ~recWritten
    /\ record = recBefore

\* C8 as stated: with an unrecognized strategy string build() fails with
\* ConditionalRule carrying that string; no tool, no pool, no record access.
C8_RuleRejected ==
    Unrecognized =>
        /\ ~ToolInvoked
        /\ pooled = "not called"
        /\ RecordUntouched
        /\ Done => result = Err2("ConditionalRule", item.build_on[1])

\* C8 as amended: with an unrecognized strategy string build() fails: with
\* the error (or the panic) of a stage ahead of pre_flight when one fails,
\* otherwise with ConditionalRule carrying that string; no tool, no pool, no
\* record access.
C8_RuleRejectedAfterStaging ==
    Unrecognized =>
        /\ ~ToolInvoked
        /\ pooled = "not called"
        /\ RecordUntouched
        /\ Done => IF pf = "none"
                   THEN result \in { Err2(k, Name) : k \in StagingErrors } \cup {Panic}
                   ELSE result = Err2("ConditionalRule", item.build_on[1])

C8_Witness ==
    /\ Done
    /\ Unrecognized
    /\ IsCommitKind(recBefore[Name].data)
    /\ result = Err2("ConditionalRule", "magic")

ChangelogShape(data) ==
    LET ls == Lines(data)
    IN  /\ Len(ls) = 2
        /\ ls[1] = CHANGELOG
        /\ SplitWhitespace(ls[2]) = << ls[2] >>

CommitShape(data) ==
    LET ls == Lines(data)
    IN  /\ Len(ls) >= 2
        /\ ls[1] = COMMIT
        /\ \A i \in 2..Len(ls) :
              LET fields == SplitWhitespace(ls[i])
              IN  Len(fields) = 2 /\ ls[i] = PairLine(fields)

\* C10: a changelog build skips only on a changelog record, a commit build
\* only on a commit record; pairs are appended only to a commit record; and
\* after a successful build the record has the discriminator and the line
\* shape of the strategy that ran.
C10_KindNeverReinterpreted ==
    /\ (pf = "skip" /\ Strategy("changelog")) => IsChangelogKind(recBefore[Name].data)
    /\ (pf = "skip" /\ Strategy("commit")) => IsCommitKind(recBefore[Name].data)
    /\ (pending # <<>> /\ pending[1] = "CommitAppend") => IsCommitKind(recBefore[Name].data)
    /\ (Done /\ result = Ok /\ Strategy("changelog")) => ChangelogShape(record[Name].data)
    /\ (Done /\ result = Ok /\ Strategy("commit")) => CommitShape(record[Name].data)

\* C16: sbuild()'s outcomes map to errors: a non-zero exit to Build naming
\* the package, a failed launch to Command, an unopenable log to Open (the
\* tool not having run); only a zero exit lets pre_flight go on. On each
\* error pre_flight returns it, build() returns it and mv_to_pool is not
\* called.
ToolRan == sbuilt \in {"Build", "Ok"}       \* the tool was launched and exited

C16_SbuildErrors ==
    /\ sbuilt \in {"Open", "Command", "Build"} =>
          /\ pf = "Err"
          /\ pc = "done"
          /\ pooled = "not called"
          /\ result = CASE sbuilt = "Build"   -> Err2("Build", Name)
                        [] sbuilt = "Command" -> Err2("Command", "sbuild")
                        [] sbuilt = "Open"    -> Err2("Open", Name)
    /\ sbuilt = "Open" => ~ToolRan
    /\ (pf = "Ok" \/ pc = "record") => sbuilt = "Ok"
    /\ (result = Ok /\ pf # "skip") => sbuilt = "Ok"

C16_Witness ==
    /\ Done
    /\ sbuilt = "Command"
    /\ pending # <<>>
    /\ result = Err2("Command", "sbuild")

\* the changelog build found no first version
ChangelogWasUnavailable ==
    /\ Strategy("changelog")
    /\ chlog \in ChangelogOutcomes

\* C17 as stated: a changelog build whose first version is unavailable
\* fails with NoChangelogVersion naming the package, whatever force and the
\* record are, with no tool call and no record access.
C17_NoChangelogVersion ==
    ChangelogWasUnavailable =>
        /\ Done
        /\ result = Err2("NoChangelogVersion", Name)
        /\ ~ToolInvoked
        /\ pooled = "not called"
        /\ RecordUntouched

\* C17 as amended: ... fails with NoChangelogVersion naming the package when
\* the changelog lists no version, and with the Changelog error naming the
\* package when it cannot be read; the rest as stated.
C17_ChangelogOrNoVersion ==
    ChangelogWasUnavailable =>
        /\ Done
        /\ result = IF chlog = "no version"
                    THEN Err2("NoChangelogVersion", Name)
                    ELSE Err2("Changelog", Name)
        /\ ~ToolInvoked
        /\ pooled = "not called"
        /\ RecordUntouched

C17_Witness ==
    /\ ChangelogWasUnavailable
    /\ force
    /\ IsChangelogKind(recBefore[Name].data)
    /\ result = Err2("Changelog", Name)

\* C20: right after a changelog or commit build that called the tool and
\* returned Ok, a non-forced build of the same Source with the same inputs
\* (the record being read without error) skips and calls no tool.
C20_RebuildSkips ==
    (after # <<>> /\ cur = after /\ recAccess # "failed") =>
        /\ pf = "skip"
        /\ ~ToolInvoked

\* ---------------------------------------------------------------- the run
\* the run's bookkeeping of its build() calls
RunInOrder ==
    /\ started = SubSeq(Selected, 1, Len(started))
    /\ Len(outcomes) = Len(started) - (IF rpc = "in build" THEN 1 ELSE 0)
    /\ \A k \in 1..(Len(outcomes) - 1) : outcomes[k] = Ok
    /\ rpc \in {"head", "returned"} => \A k \in 1..Len(outcomes) : outcomes[k] = Ok
    /\ pc \notin {"idle", "done"} =>
          /\ rpc = "in build"
          /\ item = config[started[Len(started)]]
    /\ rpc = "exited" =>
          /\ pc = "done"
          /\ result[1] = "Err"
          /\ outcomes[Len(outcomes)] = result

\* C11: the builds of a run are called one at a time in configuration order
\* (in packages(), the order of the Sources whose names were asked for);
\* every build before the one in progress returned Ok; a build() that
\* returns an error is followed by exit(1) and by nothing else: no stage of
\* any later package starts.
C11_FailFast ==
    /\ [](RunInOrder)
    /\ [][rpc # "exited"]_vars
    /\ [][(rpc = "in build" /\ pc = "done" /\ result[1] = "Err")
             => rpc' = "exited"]_vars

\* a build failed while a later package was still to be built
C11_Witness ==
    /\ rpc = "exited"
    /\ Len(started) < Len(Selected)
    /\ sbuilt = "Build"

\* ------------------------------------------------------------- the stages
StageOrder == <<"workspace", "extract", "local assets", "glob assets",
                "metadata", "pre_flight", "pool">>
StageIndex(stage) == CHOOSE i \in 1..Len(StageOrder) : StageOrder[i] = stage

\* the errors build() returns for a stage
StageErrors(stage) ==
    CASE stage = "workspace"    -> {"Directory"}
      [] stage = "extract"      -> {"Extract"}
      [] stage = "local assets" -> {"Directory", "Link"}
      [] stage = "glob assets"  -> {"Link"}
      [] stage = "metadata"     -> {"GitBranch", "Rsync"}
      [] stage = "pre_flight"   -> {"PreFlight"}
      [] stage = "pool"         -> {"Pool"}

\* C12: the stages of one build() run in the order workspace, extraction,
\* local assets, glob assets, metadata, pre-flight, pool, none twice; a
\* stage that fails (workspace creation and a clone or copy exiting
\* non-zero included) is the last one run, and build() has returned that
\* stage's error.
C12_StageFailureAborts ==
    /\ \A i, j \in 1..Len(trace) :
          i < j => StageIndex(trace[i][1]) < StageIndex(trace[j][1])
    /\ \A i \in 1..Len(trace) :
          trace[i][2] = "failed" =>
              /\ i = Len(trace)
              /\ spc = "done"
              /\ sresult[1] = "Err"
              /\ sresult[2] \in StageErrors(trace[i][1])

\* C19: with a branch-merge origin, once merge_branch has run with none of
\* its commands made to fail, whether or not the scratch clone was there,
\* the metadata stage has succeeded and the workspace root holds exactly the
\* branch's control directory.
C19_BranchInWorkspace ==
    (/\ source.debian = "Branch"
     /\ spc \in {"pre_flight", "pool", "done"}
     /\ \E i \in 1..Len(trace) : trace[i][1] = "metadata"
     /\ faults = {}) =>
        /\ \E i \in 1..Len(trace) : trace[i] = <<"metadata", "ok">>
        /\ control["workspace"] = "branch"

\* ------------------------------------------------------- the command line
\* C13: over one pool listing and one pattern list, every invocation selects
\* exactly the matching entries, in ascending order of score, entries of
\* equal score in the order of the listing; and any two invocations give
\* the same extra-dependency list in the same order.
C13_SelectorDeterministic ==
    /\ \A k \in 1..Len(selections) :
          LET sel == selections[k]
          IN  /\ depends =>
                    /\ Len(sel) = Len(Matching)
                    /\ \A m \in 1..Len(Matching) :
                          \E i \in 1..Len(sel) : sel[i] = Matching[m]
              /\ ~depends => sel = <<>>
              /\ \A i, j \in 1..Len(sel) :
                    i < j =>
                        /\ ScoreAt(sel[i]) <= ScoreAt(sel[j])
                        /\ ScoreAt(sel[i]) = ScoreAt(sel[j]) => sel[i] < sel[j]
    /\ \A k, l \in 1..Len(selections) :
          ExtraPackages(selections[k]) = ExtraPackages(selections[l])

\* two invocations, the sort moved an entry, and two different packages tie
C13_Witness ==
    /\ Len(selections) = MaxInvocations
    /\ selections[1] # Matching
    /\ \E i, j \in 1..Len(selections[1]) :
          /\ i < j
          /\ ScoreAt(selections[1][i]) = ScoreAt(selections[1][j])
          /\ listing[selections[1][i]].deb # listing[selections[1][j]].deb

\* the argument list is `fixed`, then one flag per selected entry, per
\* pre-build command and per starting-build command, then the path
ArgsAre(fixed) ==
    LET e  == ExtraPackages(selections[Len(selections)])
        p  == Listed(prebuild)
        st == Listed(starting_build)
        n  == Len(fixed)
    IN  /\ Len(args) = n + Len(e) + Len(p) + Len(st) + 1
        /\ SubSeq(args, 1, n) = fixed
        /\ \A k \in 1..Len(e) : args[n + k] = <<"--extra-package=", e[k]>>
        /\ \A k \in 1..Len(p) :
              args[n + Len(e) + k] = <<"--pre-build-commands=", p[k]>>
        /\ \A k \in 1..Len(st) :
              args[n + Len(e) + Len(p) + k] = <<"--starting-build-commands=", st[k]>>
        /\ args[Len(args)] = <<"build/foo">>

C14_OwnDirectory ==
    \A w \in Workers :
        /\ gitIn[w] # <<>> =>
              gitIn[w][2] = IF gitIn[w][1] = "pull" THEN Own(w) ELSE Sources
        /\ toolIn[w] # <<>> => toolIn[w] = <<Own(w)>>

\* -------------------------------------------------------------- download
\* the destination was there and as long as the HEAD response said
LengthMatches ==
    /\ destBefore.exists
    /\ lengthRead
    /\ reported # <<>>
    /\ reported[1] = destBefore.len

\* C15: once download() has chosen, it has returned AlreadyExists, with no
\* GET sent and the file as it was, exactly when the destination existed
\* with the length the HEAD response reported; otherwise (a response
\* without content-length and an unreadable length included) it goes on to
\* re-create the file and download it.
C15_SkipIffLengthMatches ==
    (dpc \in {"create", "get", "copy", "done"} /\ dres[1] # "Err") =>
        /\ dres = AlreadyExists <=> LengthMatches
        /\ dres = AlreadyExists => "GET" \notin sent /\ dest = destBefore
        /\ (dpc = "done" /\ ~LengthMatches) =>
              /\ dres[1] = "Downloaded"
              /\ "GET" \in sent

\* ------------------------------------------------- the record on an error
\* C21: whenever build() has returned an error, the record files are what
\* they were when the call began (so a failure of mv_to_pool leaves no
\* record of a build that was not published).
C21_RecordUnchangedOnError ==
    (Done /\ result[1] = "Err") => record = recBefore

====
